---- MODULE Spec2Model ----
(***************************************************************************)
(* Time-Gated Secret: the schedule engine (src/schedule.js, kept as        *)
(* src/unnamed/part_003), the secret routes of the server                  *)
(* (src/unnamed/part_002, lines 20-246) and the Firestore storage layer    *)
(* (src/src/db.js).                                                        *)
(*                                                                         *)
(* Instants are whole seconds since 1970-01-01T00:00:00Z (a Thursday).     *)
(* Texts that the code takes apart (HH:MM inputs) are sequences of         *)
(* one-character strings.  A nullable field is a set: {} is null/absent    *)
(* and {v} holds v.                                                        *)
(***************************************************************************)
EXTENDS Integers, Sequences, FiniteSets, TLC

VARIABLES
    now,        \* the wall clock read by DateTime.now() / DateTime.utc()
    secrets,    \* the Firestore collection "secrets": id -> document
    resp,       \* the response of the request handled last (one at a time)
    everHid,    \* history: id -> the secret was not visible at some instant
                \* since its creation under the schedule stored at that instant
    procs,      \* interleaved handlers: request -> position and locals
    probe       \* the last call of a pure engine function and its result

vars == <<now, secrets, resp, everHid, procs, probe>>

---------------------------------------------------------------------------
(* Small helpers *)

Min(a, b) == IF a < b THEN a ELSE b
Max(a, b) == IF a > b THEN a ELSE b

Absent == {}
Some(v) == {v}
TheValue(opt) == CHOOSE v \in opt : TRUE

---------------------------------------------------------------------------
(* luxon: zones and local wall-clock time *)

\* The zones of the model: two IANA zones with a fixed UTC offset, and one
\* that moves its clocks. Every other name is one luxon reports as invalid.
FixedOffsetZones == {"UTC", "Asia/Tokyo"}

ValidZones == FixedOffsetZones \cup {"America/New_York"}

\* The standard offset of the zone
ZoneOffsetMinutes(tz) ==
    IF tz = "Asia/Tokyo" THEN 540 ELSE IF tz = "America/New_York" THEN 0 - 300 ELSE 0

\* New York put its clocks forward on Sunday 1970-04-26 at 02:00 local time
\* (07:00 UTC), day 115 of the year; the instants of the model lie before
\* the clocks went back in October
NewYorkClocksForward == 115 * 86400 + 7 * 3600

\* The offset in force in the zone at instant t
OffsetMinutesAt(tz, t) ==
    IF tz = "America/New_York" /\ t >= NewYorkClocksForward
    THEN ZoneOffsetMinutes(tz) + 60
    ELSE ZoneOffsetMinutes(tz)

validateTimezone(tz) == tz \in ValidZones

\* setZone(tz): the wall clock of the zone at instant t
LocalSeconds(t, tz) == t + 60 * OffsetMinutesAt(tz, t)

\* The fields of a luxon DateTime whose local wall clock reads `local` seconds
\* since 1970-01-01T00:00:00 local time; weekday: Monday = 1 .. Sunday = 7
Weekday(local) == (((local \div 86400) + 3) % 7) + 1

Hour(local) == (local % 86400) \div 3600

Minute(local) == (local % 3600) \div 60

\* What the arithmetic of the code makes of a field of an invalid DateTime
NaN == 0 - 1

---------------------------------------------------------------------------
(* src/schedule.js *)

DAY_NAMES == <<"Sunday", "Monday", "Tuesday", "Wednesday", "Thursday", "Friday", "Saturday">>

Digits == <<"0", "1", "2", "3", "4", "5", "6", "7", "8", "9">>

IsDigit(c) == \E i \in 1..10 : Digits[i] = c

DigitValue(c) == (CHOOSE i \in 1..10 : Digits[i] = c) - 1

\* String.prototype.split(':'): the pieces between the colons
FirstColon(s) == CHOOSE i \in 1..Len(s) : s[i] = ":" /\ \A j \in 1..(i - 1) : s[j] # ":"

RECURSIVE SplitColon(_)
SplitColon(s) ==
    IF \A i \in 1..Len(s) : s[i] # ":"
    THEN <<s>>
    ELSE <<SubSeq(s, 1, FirstColon(s) - 1)>> \o SplitColon(SubSeq(s, FirstColon(s) + 1, Len(s)))

RECURSIVE DigitPrefix(_)
DigitPrefix(s) ==
    IF s = <<>> \/ ~IsDigit(Head(s)) THEN <<>> ELSE <<Head(s)>> \o DigitPrefix(Tail(s))

RECURSIVE DecimalValue(_)
DecimalValue(ds) ==
    IF ds = <<>> THEN 0 ELSE 10 * DecimalValue(SubSeq(ds, 1, Len(ds) - 1)) + DigitValue(ds[Len(ds)])

RECURSIVE SkipSpaces(_)
SkipSpaces(s) == IF s # <<>> /\ Head(s) = " " THEN SkipSpaces(Tail(s)) ELSE s

Unsigned(t) == IF t # <<>> /\ Head(t) \in {"-", "+"} THEN Tail(t) ELSE t

SignedValue(t, ds) ==
    IF ds = <<>> THEN Absent
    ELSE IF t # <<>> /\ Head(t) = "-" THEN Some(0 - DecimalValue(ds)) ELSE Some(DecimalValue(ds))

ParseTrimmed(t) == SignedValue(t, DigitPrefix(Unsigned(t)))

\* parseInt(v, 10): leading blanks, a sign, then the longest run of digits;
\* {} stands for NaN
ParseInt(s) == ParseTrimmed(SkipSpaces(s))

\* line 17-18, h and m being numbers
HoursMinutes(h, m) ==
    IF h < 0 \/ h > 23 \/ m < 0 \/ m > 59 THEN Absent ELSE Some(h * 60 + m)

\* line 16
NumbersToMinutes(h, m) ==
    IF h = Absent \/ m = Absent THEN Absent ELSE HoursMinutes(TheValue(h), TheValue(m))

\* const [h, m] = parts.map(parseInt): a missing second part is parseInt(undefined)
PartsToMinutes(parts) ==
    NumbersToMinutes(ParseInt(parts[1]), IF Len(parts) >= 2 THEN ParseInt(parts[2]) ELSE Absent)

\* {} stands for null
hhmmToMinutes(hhmm) == PartsToMinutes(SplitColon(hhmm))

RECURSIVE DecimalText(_)
DecimalText(n) ==
    IF n < 10 THEN <<Digits[n + 1]>> ELSE DecimalText(n \div 10) \o <<Digits[(n % 10) + 1]>>

\* The same with no padding
PadStart2_NoPadding(s) == s

\* String(n).padStart(2, '0')
PadStart2(s) == IF Len(s) < 2 THEN <<"0">> \o s ELSE s

minutesToHHMM(mins) ==
    PadStart2(DecimalText(mins \div 60)) \o <<":">> \o PadStart2(DecimalText(mins % 60))

\* Array.prototype.sort((a, b) => a.start - b.start): a stable sort by start
RECURSIVE InsertByStart(_, _)
InsertByStart(sorted, iv) ==
    IF sorted = <<>> THEN <<iv>>
    ELSE IF sorted[Len(sorted)].start <= iv.start THEN Append(sorted, iv)
         ELSE Append(InsertByStart(SubSeq(sorted, 1, Len(sorted) - 1), iv), sorted[Len(sorted)])

\* A variant that leaves the intervals in the order given
SortByStart_OrderKept(s) == s

RECURSIVE SortByStart(_)
SortByStart(s) ==
    IF s = <<>> THEN <<>>
    ELSE InsertByStart(SortByStart(SubSeq(s, 1, Len(s) - 1)), s[Len(s)])

\* A variant that merges only what overlaps (iv.start >= last.end starts anew)
RECURSIVE MergeSorted_TouchingKept(_, _)
MergeSorted_TouchingKept(merged, rest) ==
    IF rest = <<>> THEN merged
    ELSE IF merged = <<>> \/ Head(rest).start >= merged[Len(merged)].end
         THEN MergeSorted_TouchingKept(Append(merged, Head(rest)), Tail(rest))
         ELSE MergeSorted_TouchingKept(
                  [merged EXCEPT ![Len(merged)].end = Max(@, Head(rest).end)], Tail(rest))

\* lines 35-43
RECURSIVE MergeSorted(_, _)
MergeSorted(merged, rest) ==
    IF rest = <<>> THEN merged
    ELSE IF merged = <<>> \/ Head(rest).start > merged[Len(merged)].end
         THEN MergeSorted(Append(merged, Head(rest)), Tail(rest))
         ELSE MergeSorted([merged EXCEPT ![Len(merged)].end = Max(@, Head(rest).end)], Tail(rest))

\* A variant that takes the end for the last minute held
ClampInterval_EndHeld(iv) == [start |-> Max(0, iv.start), end |-> Min(1440, iv.end + 1)]

ClampInterval(iv) == [start |-> Max(0, iv.start), end |-> Min(1440, iv.end)]

IsProperInterval(iv) == iv.start < iv.end

ClampAll(kept) == [i \in 1..Len(kept) |-> ClampInterval(kept[i])]

\* A variant that returns the intervals as given
normalizeIntervals_AsGiven(intervals) == intervals

normalizeIntervals(intervals) ==
    MergeSorted(<<>>, SortByStart(SelectSeq(ClampAll(SelectSeq(intervals, IsProperInterval)),
                                            IsProperInterval)))

\* The same with a slot of equal start and end let through
MinutesOutcome_EqualAllowed(sm, em) ==
    IF sm = Absent \/ em = Absent THEN "time"
    ELSE IF TheValue(sm) > TheValue(em) THEN "order"
    ELSE "ok"

\* lines 61-66 for the minutes of a slot whose two texts are given
MinutesOutcome(sm, em) ==
    IF sm = Absent \/ em = Absent THEN "time"
    ELSE IF TheValue(sm) >= TheValue(em) THEN "order"
    ELSE "ok"

\* One slot of a weekday of the submitted form, lines 58-66.
\* "skip": not both texts given; "time": a text is no HH:MM; "order": start >= end
SlotOutcome(slot) ==
    IF slot.s = <<>> \/ slot.e = <<>> THEN "skip"
    ELSE MinutesOutcome(hhmmToMinutes(slot.s), hhmmToMinutes(slot.e))

SlotInterval(slot) ==
    [start |-> TheValue(hhmmToMinutes(slot.s)), end |-> TheValue(hhmmToMinutes(slot.e))]

\* The same with the slots of an all-day weekday read as well
FailingSlots_AllDayRead(body) ==
    {dr \in (0..6) \X (1..3) :
        SlotOutcome(body.days[dr[1]].slots[dr[2]]) \in {"time", "order"}}

\* The slots (day, r) at which the loops of parseScheduleFromBody throw
FailingSlots(body) ==
    {dr \in (0..6) \X (1..3) :
        /\ ~body.days[dr[1]].allDay
        /\ SlotOutcome(body.days[dr[1]].slots[dr[2]]) \in {"time", "order"}}

\* The first of them in the order of the loops: d ascending, then r ascending
FirstOf(failing) ==
    CHOOSE dr \in failing :
        \A o \in failing : dr[1] < o[1] \/ (dr[1] = o[1] /\ dr[2] <= o[2])

\* lines 62 and 65
SlotErrorMessage(body, dr) ==
    [text |-> IF SlotOutcome(body.days[dr[1]].slots[dr[2]]) = "time"
              THEN "Invalid time for <day> interval <slot>."
              ELSE "<day> interval <slot> start must be before end.",
     day |-> DAY_NAMES[dr[1] + 1], slot |-> dr[2]]

IsGivenSlot(slot) == SlotOutcome(slot) = "ok"

IntervalsOf(given) == [i \in 1..Len(given) |-> SlotInterval(given[i])]

DayIntervals(day) ==
    IF day.allDay THEN <<[start |-> 0, end |-> 1440]>>
    ELSE IntervalsOf(SelectSeq(day.slots, IsGivenSlot))

ParseOutcome(body, failing) ==
    IF failing # {}
    THEN [threw |-> Some(SlotErrorMessage(body, FirstOf(failing))), schedule |-> Absent]
    ELSE [threw |-> Absent,
          schedule |-> Some([version |-> 1,
                             windowsPerDay |-> [d \in 0..6 |-> normalizeIntervals(DayIntervals(body.days[d]))]])]

\* threw: {} or {message}; schedule: {schedule} when nothing was thrown
parseScheduleFromBody(body) == ParseOutcome(body, FailingSlots(body))

\* schedule.windowsPerDay[dayIndex] || []: no entry for NaN or a missing day
WindowsOf(schedule, dayIndex) ==
    IF dayIndex \in DOMAIN schedule.windowsPerDay THEN schedule.windowsPerDay[dayIndex] ELSE <<>>

\* weekday % 7 (Monday=1..Sunday=7 becomes Sunday=0..Saturday=6), lines 79-80
DayIndexOf(local) == IF Weekday(local) % 7 = 0 THEN 0 ELSE Weekday(local) % 7

\* hour * 60 + minute, line 81
MinutesOf(local) == Hour(local) * 60 + Minute(local)

\* A variant whose intervals include their end
RECURSIVE AnyIntervalCovers_EndIncluded(_, _)
AnyIntervalCovers_EndIncluded(intervals, minutes) ==
    IF intervals = <<>> THEN FALSE
    ELSE IF minutes >= Head(intervals).start /\ minutes <= Head(intervals).end THEN TRUE
    ELSE AnyIntervalCovers_EndIncluded(Tail(intervals), minutes)

\* for (const iv of intervals) if (minutes >= iv.start && minutes < iv.end) return true
RECURSIVE AnyIntervalCovers(_, _)
AnyIntervalCovers(intervals, minutes) ==
    IF intervals = <<>> THEN FALSE
    ELSE IF minutes >= Head(intervals).start /\ minutes < Head(intervals).end THEN TRUE
    ELSE AnyIntervalCovers(Tail(intervals), minutes)

VisibleAtLocal(schedule, local) ==
    AnyIntervalCovers(WindowsOf(schedule, DayIndexOf(local)), MinutesOf(local))

\* A variant that reads an invalid zone as UTC
isSecretVisibleNow_ZoneIgnored(schedule, timezone, t) ==
    VisibleAtLocal(schedule, LocalSeconds(t, timezone))

\* t is the instant DateTime.now() reads
isSecretVisibleNow(schedule, timezone, t) ==
    IF ~validateTimezone(timezone) THEN FALSE
    ELSE VisibleAtLocal(schedule, LocalSeconds(t, timezone))

DisplayIntervals(intervals) ==
    [k \in 1..Len(intervals) |->
        [start |-> minutesToHHMM(intervals[k].start), end |-> minutesToHHMM(intervals[k].end)]]

scheduleToDisplayRows(schedule) ==
    [i \in 1..7 |->
        [dayIndex |-> i - 1, dayName |-> DAY_NAMES[i],
         intervals |-> DisplayIntervals(WindowsOf(schedule, i - 1))]]

buildDefaultExampleSchedule ==
    [version |-> 1,
     windowsPerDay |-> [d \in 0..6 |->
        IF d = 5 THEN <<[start |-> 0, end |-> 1440]>>
        ELSE <<[start |-> 13 * 60, end |-> 17 * 60]>>]]

\* A variant whose loop stops one step early (i < maxScanMinutes)
MaxScanMinutes_OneShort(createdAt, t) == Min(14 * 24 * 60, Max(0, (t - createdAt) \div 60)) - 1

\* A variant whose cap counts hours where the loop counts minutes
MaxScanMinutes_CapInHours(createdAt, t) == Min(14 * 24, Max(0, (t - createdAt) \div 60))

\* A variant whose cap is one day
MaxScanMinutes_CapOneDay(createdAt, t) == Min(24 * 60, Max(0, (t - createdAt) \div 60))

\* A variant whose cap is three days
MaxScanMinutes_CapThreeDays(createdAt, t) == Min(3 * 24 * 60, Max(0, (t - createdAt) \div 60))

\* A variant without the cap of 14 days
MaxScanMinutes_NoCap(createdAt, t) == Max(0, (t - createdAt) \div 60)

\* Math.min(14 * 24 * 60, Math.max(0, Math.floor(nowUtc.diff(created, 'minutes').minutes)))
MaxScanMinutes(createdAt, t) == Min(14 * 24 * 60, Max(0, (t - createdAt) \div 60))

\* A variant of the scanner's index that keeps luxon's weekday (Sunday = 7)
ScanDayIndexOf_RawWeekday(local) == Weekday(local)

\* tsLocal.weekday % 7, lines 122-123
ScanDayIndexOf(local) == IF Weekday(local) % 7 = 0 THEN 0 ELSE Weekday(local) % 7

\* tsLocal.hour * 60 + tsLocal.minute, line 124
ScanMinutesOf(local) == Hour(local) * 60 + Minute(local)

\* A variant whose intervals exclude their start
RECURSIVE ScanIntervalCovers_StartExcluded(_, _)
ScanIntervalCovers_StartExcluded(intervals, minutes) ==
    IF intervals = <<>> THEN FALSE
    ELSE IF minutes > Head(intervals).start /\ minutes < Head(intervals).end THEN TRUE
    ELSE ScanIntervalCovers_StartExcluded(Tail(intervals), minutes)

\* lines 126-132: visible is set at the first interval that holds the minute
RECURSIVE ScanIntervalCovers(_, _)
ScanIntervalCovers(intervals, minutes) ==
    IF intervals = <<>> THEN FALSE
    ELSE IF minutes >= Head(intervals).start /\ minutes < Head(intervals).end THEN TRUE
    ELSE ScanIntervalCovers(Tail(intervals), minutes)

\* lines 122-132 for the local wall clock of the sampled minute
ScanVisibleAtLocal(schedule, local) ==
    ScanIntervalCovers(WindowsOf(schedule, ScanDayIndexOf(local)), ScanMinutesOf(local))

\* The minute the loop samples at step i is hidden, lines 120-133 (in an
\* invalid zone weekday, hour and minute are NaN, the day has no entry and
\* the minute is hidden)
HiddenAtStep(createdAt, schedule, timezone, i) ==
    IF ~validateTimezone(timezone)
    THEN ~ScanIntervalCovers(WindowsOf(schedule, NaN), NaN)
    ELSE ~ScanVisibleAtLocal(schedule, LocalSeconds(createdAt + 60 * i, timezone))

\* lines 139-146: every day is exactly the one interval [0, 1440)
AlwaysVisible(schedule) ==
    \A d \in 0..6 :
        /\ Len(WindowsOf(schedule, d)) = 1
        /\ WindowsOf(schedule, d)[1].start = 0
        /\ WindowsOf(schedule, d)[1].end = 1440

\* The loop returns true at the first hidden minute it samples; after the
\* loop both exits return false (lines 147 and 150). t is the instant
\* DateTime.utc() reads
hasEverEnteredHiddenSinceCreation(createdAt, schedule, timezone, t) ==
    IF \E i \in 0..MaxScanMinutes(createdAt, t) : HiddenAtStep(createdAt, schedule, timezone, i)
    THEN TRUE
    ELSE IF AlwaysVisible(schedule) THEN FALSE ELSE FALSE

\* The number of minutes the loop of lines 119-136 tests when its bound is
\* max: it leaves at the first hidden minute, or after step max
ScanStepsRun(createdAt, schedule, timezone, max) ==
    IF \E i \in 0..max : HiddenAtStep(createdAt, schedule, timezone, i)
    THEN 1 + CHOOSE i \in 0..max :
                 /\ HiddenAtStep(createdAt, schedule, timezone, i)
                 /\ \A j \in 0..(i - 1) : ~HiddenAtStep(createdAt, schedule, timezone, j)
    ELSE max + 1

ScanTested(createdAt, schedule, timezone, t) ==
    ScanStepsRun(createdAt, schedule, timezone, MaxScanMinutes(createdAt, t))

---------------------------------------------------------------------------
(* src/db.js: the Firestore documents of collection "secrets" *)

\* buildSecretFields: lockedAt is a timestamp when truthy and a null field otherwise
buildSecretFields(secret) ==
    [id |-> secret.id, secretText |-> secret.secretText, timezone |-> secret.timezone,
     schedule |-> secret.schedule, createdAt |-> secret.createdAt, lockedAt |-> secret.lockedAt]

\* parseSecretDocument: an empty zone reads as 'UTC'
parseSecretDocument(doc) ==
    [id |-> doc.id, secretText |-> doc.secretText,
     timezone |-> IF doc.timezone = "" THEN "UTC" ELSE doc.timezone,
     schedule |-> doc.schedule, createdAt |-> doc.createdAt, lockedAt |-> doc.lockedAt]

\* PATCH with currentDocument.exists=false (the caller sees it fail when the
\* document exists)
createSecret(store, secret) ==
    [d \in DOMAIN store \cup {secret.id} |->
        IF d = secret.id THEN buildSecretFields(secret) ELSE store[d]]

\* {} when the document does not exist (404)
getSecret(store, id) ==
    IF id \in DOMAIN store THEN Some(parseSecretDocument(store[id])) ELSE Absent

\* PATCH with updateMask lockedAt and no precondition: whatever is stored is overwritten
lockSecret(store, id, lockedAt) == [store EXCEPT ![id].lockedAt = Some(lockedAt)]

\* The same PATCH with a mask that names secretText as well: the field, not
\* being in the body, is removed and reads as ''
updateSecretSchedule_TextMasked(store, id, timezone, schedule) ==
    [store EXCEPT ![id].timezone = timezone, ![id].schedule = schedule, ![id].secretText = <<>>]

\* PATCH with updateMask timezone, schedule and no precondition
updateSecretSchedule(store, id, timezone, schedule) ==
    [store EXCEPT ![id].timezone = timezone, ![id].schedule = schedule]

\* orderBy createdAt desc
Newest(store, ids) == CHOOSE d \in ids : \A o \in ids : store[d].createdAt >= store[o].createdAt

RECURSIVE ListOrdered(_, _)
ListOrdered(store, ids) ==
    IF ids = {} THEN <<>>
    ELSE <<parseSecretDocument(store[Newest(store, ids)])>>
         \o ListOrdered(store, ids \ {Newest(store, ids)})

listSecrets(store) == ListOrdered(store, DOMAIN store)

---------------------------------------------------------------------------
(* The inputs of the model *)

\* The instant h:m:s UTC of the day that lies `day` days after 1970-01-01
At(day, h, m, s) == day * 86400 + h * 3600 + m * 60 + s

\* The instants at which the clock is read, in order: Sunday 1970-01-04
\* 12:59:30, 13:00:00, 16:59:40 and 17:00:00, Thursday 01-08 16:00:20 (Friday
\* 01:00:20 in Tokyo), then Mondays 01-19, 01-26 and 02-02 shortly after 13:00
Itinerary ==
    <<At(3, 12, 59, 30), At(3, 13, 0, 0), At(3, 16, 59, 40), At(3, 17, 0, 0),
      At(7, 16, 0, 20), At(18, 13, 0, 10), At(25, 13, 0, 30), At(32, 13, 1, 0)>>

\* How many instants of the itinerary a behaviour may visit
Horizon == 6

Instants == {Itinerary[k] : k \in 1..Min(Horizon, Len(Itinerary))}

StartInstant == Itinerary[1]

\* The identifiers generateId can draw
Ids == {"a"}

NoSlot == [s |-> <<>>, e |-> <<>>]
T1300 == <<"1", "3", ":", "0", "0">>
T1700 == <<"1", "7", ":", "0", "0">>
T2500 == <<"2", "5", ":", "0", "0">>

DayAllDay == [allDay |-> TRUE, slots |-> <<NoSlot, NoSlot, NoSlot>>]
DayAfternoon == [allDay |-> FALSE, slots |-> <<[s |-> T1300, e |-> T1700], NoSlot, NoSlot>>]
DayBadTime == [allDay |-> FALSE, slots |-> <<[s |-> T2500, e |-> T1700], NoSlot, NoSlot>>]

\* The submitted weekly forms: always visible; the example of /new (13:00-17:00,
\* Friday all day); the example with Sunday's first start mistyped
FormAlways == [d \in 0..6 |-> DayAllDay]
FormExample == [d \in 0..6 |-> IF d = 5 THEN DayAllDay ELSE DayAfternoon]
FormBadTime == [d \in 0..6 |-> IF d = 0 THEN DayBadTime ELSE DayAfternoon]

SecretKey == <<"k", "e", "y">>

Bodies ==
    {[secretText |-> SecretKey, timezone |-> z, days |-> f] :
        z \in {"UTC", "Asia/Tokyo"}, f \in {FormAlways, FormExample}}
    \cup {[secretText |-> SecretKey, timezone |-> "Not/AZone", days |-> FormExample],
          [secretText |-> SecretKey, timezone |-> "UTC", days |-> FormBadTime],
          [secretText |-> <<" ">>, timezone |-> "UTC", days |-> FormAlways]}

\* parseScheduleFromBody(req.body) for each request body of the model
Parsed == [body \in Bodies |-> parseScheduleFromBody(body)]

---------------------------------------------------------------------------
(* server.js: the routes, each handled from its first line to its response *)

\* secretText.trim().length === 0
IsBlank(text) == \A i \in 1..Len(text) : text[i] = " "

Message(text) == [text |-> text, day |-> "", slot |-> 0]

NoResp ==
    [op |-> "none", id |-> "", status |-> 0, isVisible |-> FALSE,
     canModifySchedule |-> FALSE, lockedAt |-> Absent, errors |-> <<>>, items |-> <<>>]

Respond(op, id, status) == [NoResp EXCEPT !.op = op, !.id = id, !.status = status]

\* A variant that does not validate the zone
ScheduleErrors_ZoneUnchecked(body) ==
    IF Parsed[body].threw # Absent THEN <<TheValue(Parsed[body].threw)>> ELSE <<>>

\* lines 206-217 (and 127-136): the zone, then the schedule
ScheduleErrors(body) ==
    (IF ~validateTimezone(body.timezone) THEN <<Message("Invalid time zone.")>> ELSE <<>>)
    \o (IF Parsed[body].threw # Absent THEN <<TheValue(Parsed[body].threw)>> ELSE <<>>)

\* lines 123-136
CreateErrors(body) ==
    (IF IsBlank(body.secretText) THEN <<Message("Secret text is required.")>> ELSE <<>>)
    \o ScheduleErrors(body)

\* The history variable: the secret is visible at instant t, by section 4.3 of the
\* specification (a window of the local weekday holds the local minute)
ShownAtLocal(windowsPerDay, local) ==
    \E k \in 1..Len(windowsPerDay[((local \div 86400) + 4) % 7]) :
        /\ windowsPerDay[((local \div 86400) + 4) % 7][k].start <= (local % 86400) \div 60
        /\ (local % 86400) \div 60 < windowsPerDay[((local \div 86400) + 4) % 7][k].end

ShownAt(doc, t) ==
    /\ doc.timezone \in ValidZones
    /\ ShownAtLocal(doc.schedule.windowsPerDay, t + 60 * OffsetMinutesAt(doc.timezone, t))

\* Not visible at some instant of [t1, t2]. Visibility is the same throughout a
\* minute and, the zones of Bodies having fixed offsets, repeats every 10080 minutes, so
\* the minutes of the first week of the span decide it
HiddenBetween(doc, t1, t2) ==
    \E m \in (t1 \div 60)..Min(t2 \div 60, (t1 \div 60) + 7 * 24 * 60) : ~ShownAt(doc, Max(t1, 60 * m))

\* The clock advances to a later instant t
Tick(t) ==
    /\ t > now
    /\ now' = t
    /\ everHid' = [id \in Ids |->
            everHid[id] \/ (id \in DOMAIN secrets /\ HiddenBetween(secrets[id], now, t))]
    /\ UNCHANGED <<secrets, resp, procs, probe>>

\* A variant that never locks at creation
InitialLockedAt_Never(schedule, timezone, t) == Absent

\* lines 150-151: lockedAt of a new secret
InitialLockedAt(schedule, timezone, t) ==
    IF isSecretVisibleNow(schedule, timezone, t) THEN Absent ELSE Some(t)

\* lines 148-154: the secret that is stored
NewSecret(id, body, t) ==
    [id |-> id, secretText |-> body.secretText, timezone |-> body.timezone,
     schedule |-> TheValue(Parsed[body].schedule), createdAt |-> t,
     lockedAt |-> InitialLockedAt(TheValue(Parsed[body].schedule), body.timezone, t)]

\* POST /secret, with the identifier generateId draws
PostSecret(id, body) ==
    /\ IF CreateErrors(body) # <<>>
       THEN /\ resp' = [Respond("create", "", 400) EXCEPT !.errors = CreateErrors(body)]
            /\ UNCHANGED <<secrets, everHid>>
       ELSE IF id \in DOMAIN secrets
       THEN /\ resp' = Respond("create", "", 500)
            /\ UNCHANGED <<secrets, everHid>>
       ELSE /\ secrets' = createSecret(secrets, NewSecret(id, body, now))
            /\ resp' = Respond("create", id, 302)
            /\ everHid' = [everHid EXCEPT ![id] = ~ShownAt(secrets'[id], now)]
    /\ UNCHANGED <<now, procs, probe>>

\* A variant that looks at the visibility now only and runs no scan
ViewLocks_NowOnly(secret, isVisible, t) == secret.lockedAt = Absent /\ ~isVisible

\* A variant without the test of line 173: it locks again what is locked
ViewLocks_Again(secret, isVisible, t) ==
    hasEverEnteredHiddenSinceCreation(secret.createdAt, secret.schedule, secret.timezone, t)
    \/ ~isVisible

\* lines 173-175: the view locks the secret
ViewLocks(secret, isVisible, t) ==
    /\ secret.lockedAt = Absent
    /\ (hasEverEnteredHiddenSinceCreation(secret.createdAt, secret.schedule, secret.timezone, t)
        \/ ~isVisible)

\* A variant that offers the change whenever the secret is visible
ViewResponse_LockIgnored(id, isVisible, lockedAt) ==
    [Respond("view", id, 200) EXCEPT
        !.isVisible = isVisible, !.lockedAt = lockedAt, !.canModifySchedule = isVisible]

\* lines 182-190
ViewResponse(id, isVisible, lockedAt) ==
    [Respond("view", id, 200) EXCEPT
        !.isVisible = isVisible, !.lockedAt = lockedAt,
        !.canModifySchedule = isVisible /\ lockedAt = Absent]

\* lines 170-190
ViewSecret(id, secret, isVisible) ==
    IF ViewLocks(secret, isVisible, now)
    THEN /\ secrets' = lockSecret(secrets, id, now)
         /\ resp' = ViewResponse(id, isVisible, Some(now))
    ELSE /\ UNCHANGED secrets
         /\ resp' = ViewResponse(id, isVisible, secret.lockedAt)

ViewFound(id, found) ==
    IF found = Absent
    THEN /\ resp' = Respond("view", id, 404)
         /\ UNCHANGED secrets
    ELSE ViewSecret(id, TheValue(found),
                    isSecretVisibleNow(TheValue(found).schedule, TheValue(found).timezone, now))

\* GET /s/:id
GetSecretPage(id) ==
    /\ ViewFound(id, getSecret(secrets, id))
    /\ UNCHANGED <<now, everHid, procs, probe>>

\* A variant that trusts lockedAt alone and runs no scan
UpdateRefused_NoScan(secret, t) ==
    \/ ~isSecretVisibleNow(secret.schedule, secret.timezone, t)
    \/ secret.lockedAt # Absent

\* A variant that does not look at the visibility now
UpdateRefused_NotNow(secret, t) ==
    \/ secret.lockedAt # Absent
    \/ hasEverEnteredHiddenSinceCreation(secret.createdAt, secret.schedule, secret.timezone, t)

\* lines 200-202: the update is refused
UpdateRefused(secret, t) ==
    \/ ~isSecretVisibleNow(secret.schedule, secret.timezone, t)
    \/ secret.lockedAt # Absent
    \/ hasEverEnteredHiddenSinceCreation(secret.createdAt, secret.schedule, secret.timezone, t)

\* lines 206-237, for the body submitted
UpdateWith(id, body) ==
    IF ScheduleErrors(body) # <<>>
    THEN /\ resp' = [Respond("update", id, 400) EXCEPT
                       !.isVisible = TRUE, !.canModifySchedule = TRUE,
                       !.errors = ScheduleErrors(body)]
         /\ UNCHANGED <<secrets, everHid>>
    ELSE /\ secrets' = updateSecretSchedule(secrets, id, body.timezone,
                                            TheValue(Parsed[body].schedule))
         /\ resp' = Respond("update", id, 302)
         /\ everHid' = [everHid EXCEPT ![id] = @ \/ ~ShownAt(secrets'[id], now)]

UpdateFound(id, found) ==
    IF found = Absent
    THEN /\ resp' = Respond("update", id, 404)
         /\ UNCHANGED <<secrets, everHid>>
    ELSE IF UpdateRefused(TheValue(found), now)
    THEN /\ resp' = Respond("update", id, 403)
         /\ UNCHANGED <<secrets, everHid>>
    ELSE \E body \in Bodies : UpdateWith(id, body)

\* POST /s/:id/update-schedule
PostUpdateSchedule(id) ==
    /\ UpdateFound(id, getSecret(secrets, id))
    /\ UNCHANGED <<now, procs, probe>>

\* A variant that previews every record
ListItemOf_AlwaysPreview(s, visible) ==
    [id |-> s.id, timezone |-> s.timezone, createdAt |-> s.createdAt,
     isVisible |-> visible, lockedAt |-> s.lockedAt, preview |-> Some(s.secretText)]

\* lines 93-103
ListItemOf(s, visible) ==
    [id |-> s.id, timezone |-> s.timezone, createdAt |-> s.createdAt,
     isVisible |-> visible, lockedAt |-> s.lockedAt,
     preview |-> IF visible THEN Some(s.secretText) ELSE Absent]

ListItem(s, t) == ListItemOf(s, isSecretVisibleNow(s.schedule, s.timezone, t))

ListItems(found, t) == [i \in 1..Len(found) |-> ListItem(found[i], t)]

\* GET /list
GetList ==
    /\ resp' = [Respond("list", "", 200) EXCEPT !.items = ListItems(listSecrets(secrets), now)]
    /\ UNCHANGED <<now, secrets, everHid, procs, probe>>

NoProbe == [fn |-> "none"]

Idle == [pc |-> "idle", id |-> "", snap |-> Absent, lockedAt |-> Absent, update |-> Absent]

Procs == {1, 2}

Init ==
    /\ now = StartInstant
    /\ secrets = <<>>
    /\ resp = NoResp
    /\ everHid = [id \in Ids |-> FALSE]
    /\ procs = [p \in Procs |-> Idle]
    /\ probe = NoProbe

Next ==
    \/ \E t \in Instants : Tick(t)
    \/ \E id \in Ids, body \in Bodies : PostSecret(id, body)
    \/ \E id \in Ids : GetSecretPage(id)
    \/ \E id \in Ids : PostUpdateSchedule(id)
    \/ GetList

Spec == Init /\ [][Next]_vars

---------------------------------------------------------------------------
(* The claims about requests handled one at a time, checked under Spec *)

\* The step handles an update-schedule request for id: each route leaves its
\* name in resp, and only the clock's step changes now
IsUpdateStep(id) == now' = now /\ resp'.op = "update" /\ resp'.id = id

\* The step handles a view request for id
IsViewStep(id) == now' = now /\ resp'.op = "view" /\ resp'.id = id

\* C1: once the secret was not visible at some instant since its creation,
\* under the schedule and zone stored at that instant, every update-schedule
\* request handled afterwards is rejected and the stored schedule and zone
\* never change again.
C1_HiddenOnceNeverRescheduled ==
    [][\A id \in DOMAIN secrets :
          everHid[id] =>
              /\ secrets'[id].schedule = secrets[id].schedule
              /\ secrets'[id].timezone = secrets[id].timezone
              /\ (IsUpdateStep(id) => resp'.status = 403)]_vars

\* C1: an update was rejected for a secret that is visible now and has no
\* lockedAt stored, because it was hidden at an earlier instant
C1_Witness ==
    /\ resp.op = "update" /\ resp.status = 403
    /\ resp.id \in DOMAIN secrets
    /\ everHid[resp.id]
    /\ secrets[resp.id].lockedAt = Absent
    /\ ShownAt(secrets[resp.id], now)

\* C2: once lockedAt is set it is never cleared and never changed.
C2_LockedAtNeverChanges ==
    [][\A id \in DOMAIN secrets :
          secrets[id].lockedAt # Absent =>
              /\ id \in DOMAIN secrets'
              /\ secrets'[id].lockedAt = secrets[id].lockedAt]_vars

\* C2: a secret that was locked at an earlier instant has been viewed while
\* hidden, and an update was tried on a locked secret
C2_Witness ==
    /\ resp.op = "view" /\ resp.status = 200
    /\ resp.id \in DOMAIN secrets
    /\ ~resp.isVisible
    /\ secrets[resp.id].lockedAt # Absent
    /\ TheValue(secrets[resp.id].lockedAt) < now

\* The record exists, is visible now, has no lockedAt and the scan reports
\* no hidden minute
UpdateAllowed(id) ==
    /\ id \in DOMAIN secrets
    /\ secrets[id].lockedAt = Absent
    /\ isSecretVisibleNow(secrets[id].schedule, secrets[id].timezone, now)
    /\ ~hasEverEnteredHiddenSinceCreation(secrets[id].createdAt, secrets[id].schedule,
                                          secrets[id].timezone, now)

\* C4: an update-schedule request changes the stored record only if the
\* record exists, is visible now, has no lockedAt and the scan reports no
\* hidden minute; otherwise it answers 404 or 403 and changes nothing. Read
\* from the answer: a step that changes the store, or answers neither 404
\* nor 403, handles an allowed request.
C4_UpdateOnlyWhenAllowed ==
    [][\A id \in Ids :
          (IsUpdateStep(id) /\ (secrets' # secrets \/ resp'.status \notin {403, 404}))
              => UpdateAllowed(id)]_vars

\* C4: an update went through and changed the stored zone
C4_Witness ==
    /\ resp.op = "update" /\ resp.status = 302
    /\ resp.id \in DOMAIN secrets
    /\ secrets[resp.id].timezone = "Asia/Tokyo"
    /\ secrets[resp.id].createdAt < now

\* C6: a handler (view, update-schedule or list) that sees a secret without
\* lockedAt hidden now, or the scan reporting a hidden minute, has stored
\* lockedAt when it finishes.
ObservedHidden(id) ==
    \/ ~isSecretVisibleNow(secrets[id].schedule, secrets[id].timezone, now)
    \/ hasEverEnteredHiddenSinceCreation(secrets[id].createdAt, secrets[id].schedule,
                                         secrets[id].timezone, now)

C6_EveryHandlerPersistsLock ==
    [][\A id \in DOMAIN secrets :
          (/\ secrets[id].lockedAt = Absent
           /\ \/ IsUpdateStep(id) /\ ObservedHidden(id)
              \/ IsViewStep(id) /\ ObservedHidden(id)
              \/ /\ resp'.op = "list" /\ GetList
                 /\ ~isSecretVisibleNow(secrets[id].schedule, secrets[id].timezone, now))
          => secrets'[id].lockedAt # Absent]_vars

\* C7: a created record is stored with lockedAt set, to the creation
\* instant, exactly when the submitted schedule is not visible at creation.
C7_CreatedLockedIffHidden ==
    (resp.op = "create" /\ resp.status = 302) =>
        /\ resp.id \in DOMAIN secrets
        /\ secrets[resp.id].lockedAt # Absent
              <=> ~ShownAt(secrets[resp.id], secrets[resp.id].createdAt)
        /\ secrets[resp.id].lockedAt \in {Absent, Some(secrets[resp.id].createdAt)}

\* C7: a secret was created while hidden in Tokyo, and is stored locked
C7_Witness ==
    /\ resp.op = "create" /\ resp.status = 302
    /\ secrets[resp.id].timezone = "Asia/Tokyo"
    /\ secrets[resp.id].lockedAt = Some(now)

\* C8: each list item's preview is the secret text when the record is visible
\* now and null otherwise.
C8_PreviewOnlyWhenVisible ==
    [][(resp'.op = "list" /\ GetList) =>
          /\ Len(resp'.items) = Cardinality(DOMAIN secrets)
          /\ \A i \in 1..Len(resp'.items) :
                /\ resp'.items[i].id \in DOMAIN secrets
                /\ resp'.items[i].preview =
                      IF ShownAt(secrets[resp'.items[i].id], now)
                      THEN Some(secrets[resp'.items[i].id].secretText)
                      ELSE Absent]_vars

\* C8: a listed record is hidden and its item carries no preview
C8_Witness ==
    /\ resp.op = "list"
    /\ \E i \in 1..Len(resp.items) :
          /\ resp.items[i].preview = Absent
          /\ ~resp.items[i].isVisible
          /\ secrets[resp.items[i].id].secretText = SecretKey

\* C24: in every response of the view of an existing secret, isVisible is
\* the visibility of the stored record now, the lockedAt shown is the stored
\* one after the handler's lock step, and canModifySchedule equals (isVisible
\* and lockedAt absent): it is never true for a record that is locked or
\* hidden now.
C24_CanModifyIffVisibleAndUnlocked ==
    [][\A id \in Ids :
          (IsViewStep(id) /\ resp'.status = 200) =>
              /\ resp'.lockedAt = secrets'[id].lockedAt
              /\ resp'.isVisible = ShownAt(secrets'[id], now)
              /\ resp'.canModifySchedule
                     = (ShownAt(secrets'[id], now) /\ secrets'[id].lockedAt = Absent)]_vars

\* C24: a secret is viewed while visible and this view locks it, a hidden
\* minute lying behind: the response shows it visible and offers no change
C24_Witness ==
    /\ resp.op = "view" /\ resp.status = 200
    /\ resp.isVisible
    /\ resp.lockedAt = Some(now)
    /\ secrets[resp.id].lockedAt = Some(now)
    /\ ~resp.canModifySchedule

\* C25: no step removes a record or changes its id, secretText or createdAt;
\* a view (its lock step included) leaves schedule and timezone as they are,
\* and an update-schedule leaves lockedAt as it is.
C25_OnlyMaskedFieldsWritten ==
    [][\A id \in DOMAIN secrets :
          /\ id \in DOMAIN secrets'
          /\ secrets'[id].id = secrets[id].id
          /\ secrets'[id].secretText = secrets[id].secretText
          /\ secrets'[id].createdAt = secrets[id].createdAt
          /\ IsViewStep(id) =>
                 /\ secrets'[id].schedule = secrets[id].schedule
                 /\ secrets'[id].timezone = secrets[id].timezone
          /\ IsUpdateStep(id) => secrets'[id].lockedAt = secrets[id].lockedAt]_vars

\* C25: a secret created at the first instant with the always-visible
\* schedule (any other would have locked it at once) has been given the
\* example schedule by an update and has then been locked by a view, and it
\* still has its text and its instant of creation
C25_Witness ==
    /\ resp.op = "view" /\ resp.status = 200
    /\ resp.id \in DOMAIN secrets
    /\ secrets[resp.id].createdAt = StartInstant
    /\ secrets[resp.id].secretText = SecretKey
    /\ secrets[resp.id].schedule = buildDefaultExampleSchedule
    /\ secrets[resp.id].lockedAt = Some(now)
    /\ now > StartInstant

\* The submitted zone is no valid zone or parse fails on the submitted form
BodyIsInvalid(body) ==
    ~validateTimezone(body.timezone) \/ Parsed[body].schedule = Absent

\* The step handles an update-schedule request for id that carries body: a
\* request answered 404 or 403 is answered so whatever it carries
UpdateSubmitted(id, body) ==
    /\ IsUpdateStep(id)
    /\ resp'.status \in {403, 404} \/ UpdateWith(id, body)

\* The response is the 400 re-render with the error messages, and the store
\* is as it was
Answered400NoWrite ==
    /\ resp'.status = 400
    /\ resp'.errors # <<>>
    /\ secrets' = secrets

\* C26 as stated: if the submitted zone is invalid or parse fails on the
\* submitted schedule (or, on creation, the text is empty), the create and
\* the update-schedule handlers answer with the 400 re-render carrying the
\* messages and write nothing.
C26_InvalidInputAnswered400 ==
    [][\A id \in Ids, body \in Bodies :
          /\ (PostSecret(id, body) /\ (IsBlank(body.secretText) \/ BodyIsInvalid(body)))
                 => Answered400NoWrite
          /\ (BodyIsInvalid(body) /\ UpdateSubmitted(id, body))
                 => Answered400NoWrite]_vars

\* C26 amended: on such input neither handler writes; the create handler
\* answers with the 400 re-render carrying the messages, and so does the
\* update-schedule handler when the record exists, is visible now, has no
\* lockedAt and the scan reports no hidden minute; otherwise the update is
\* answered 404 or 403 before its body is read.
C26_InvalidInputWritesNothing ==
    [][\A id \in Ids :
          /\ \A body \in Bodies :
                /\ (PostSecret(id, body) /\ (IsBlank(body.secretText) \/ BodyIsInvalid(body)))
                       => Answered400NoWrite
                /\ (BodyIsInvalid(body) /\ UpdateSubmitted(id, body))
                       => /\ secrets' = secrets
                          /\ resp'.status \in {400, 403, 404}
                          /\ resp'.status = 400 => resp'.errors = ScheduleErrors(body)
                          /\ resp'.errors # <<>> \/ resp'.status # 400
          /\ (IsUpdateStep(id) /\ resp'.status \in {403, 404}) => ~UpdateAllowed(id)]_vars

\* C26: an update that carries an invalid zone for a visible, unlocked
\* secret was answered 400 with the message, and the stored zone is valid
C26_Witness ==
    /\ resp.op = "update" /\ resp.status = 400
    /\ resp.errors = <<Message("Invalid time zone.")>>
    /\ resp.id \in DOMAIN secrets
    /\ secrets[resp.id].lockedAt = Absent
    /\ validateTimezone(secrets[resp.id].timezone)

\* The schedule and zone stored now for id hide one of the scanned minutes
\* createdAt + i minutes, i from 0 to the whole minutes elapsed, 14 days at most
StoredScheduleHidesScannedMinute(id) ==
    \E i \in 0..Min(14 * 24 * 60, (now - secrets[id].createdAt) \div 60) :
        ~ShownAt(secrets[id], secrets[id].createdAt + 60 * i)

\* C27: the scan reads the schedule and zone stored now over the whole span
\* from createdAt: a view of an unlocked record locks it whenever the stored
\* schedule hides one of the scanned minutes since createdAt, whatever
\* schedules were in force at those minutes.
C27_ScanReadsStoredSchedule ==
    [][\A id \in DOMAIN secrets :
          (IsViewStep(id) /\ secrets[id].lockedAt = Absent
                /\ StoredScheduleHidesScannedMinute(id))
              => secrets'[id].lockedAt = Some(now)]_vars

\* C27: a secret created with the always-visible schedule at the first
\* instant was given the example schedule by an update and the next view
\* locked it while visible, although it was visible at every instant under
\* the schedules in force
C27_Witness ==
    /\ resp.op = "view" /\ resp.status = 200
    /\ resp.id \in DOMAIN secrets
    /\ resp.isVisible
    /\ secrets[resp.id].createdAt = StartInstant
    /\ secrets[resp.id].schedule = buildDefaultExampleSchedule
    /\ secrets[resp.id].lockedAt = Some(now)
    /\ ~everHid[resp.id]

---------------------------------------------------------------------------
(* The engine's functions called on their own *)

T0000 == <<"0", "0", ":", "0", "0">>
T0100 == <<"0", "1", ":", "0", "0">>
T2300 == <<"2", "3", ":", "0", "0">>
T2359 == <<"2", "3", ":", "5", "9">>

DayThreeWindows ==
    [allDay |-> FALSE,
     slots |-> <<[s |-> T0000, e |-> T0100], [s |-> T1300, e |-> T1700], [s |-> T2300, e |-> T2359]>>]
DayOff == [allDay |-> FALSE, slots |-> <<NoSlot, NoSlot, NoSlot>>]

\* Sunday in three windows, Monday off, the other days 13:00-17:00
FormThreeWindows ==
    [d \in 0..6 |-> IF d = 0 THEN DayThreeWindows ELSE IF d = 1 THEN DayOff ELSE DayAfternoon]

ProbeForms == {FormAlways, FormExample, FormThreeWindows}

ProbeSchedules ==
    {TheValue(parseScheduleFromBody([secretText |-> SecretKey, timezone |-> "UTC", days |-> f]).schedule) :
        f \in ProbeForms}

ProbeZones == ValidZones \cup {"Not/AZone"}

\* Around the ends of the windows on Sunday 1970-01-04, and where the zones
\* disagree about the weekday
ProbeInstants ==
    {At(3, 0, 0, 0), At(3, 0, 59, 59), At(3, 1, 0, 0), At(3, 12, 59, 0), At(3, 12, 59, 59),
     At(3, 13, 0, 0), At(3, 16, 59, 59), At(3, 17, 0, 0), At(3, 23, 59, 0),
     At(2, 15, 0, 0), At(2, 14, 59, 59), At(4, 14, 0, 0), At(8, 3, 0, 0), At(7, 15, 0, 0)}

\* isSecretVisibleNow(schedule, timezone) is called at instant t
CallIsSecretVisibleNow(schedule, timezone, t) ==
    /\ probe' = [fn |-> "isSecretVisibleNow", schedule |-> schedule, timezone |-> timezone,
                 at |-> t, out |-> isSecretVisibleNow(schedule, timezone, t)]
    /\ UNCHANGED <<now, secrets, resp, everHid, procs>>

\* The weekday index of the instant t in a valid zone, as the evaluator
\* (lines 79-80) and as the scanner (lines 122-123) compute it
CallDayIndex(timezone, t) ==
    /\ probe' = [fn |-> "dayIndex", timezone |-> timezone, at |-> t,
                 weekday |-> Weekday(LocalSeconds(t, timezone)),
                 visibleIndex |-> DayIndexOf(LocalSeconds(t, timezone)),
                 scanIndex |-> ScanDayIndexOf(LocalSeconds(t, timezone))]
    /\ UNCHANGED <<now, secrets, resp, everHid, procs>>

NextFn ==
    \/ \E schedule \in ProbeSchedules, timezone \in ProbeZones, t \in ProbeInstants :
          CallIsSecretVisibleNow(schedule, timezone, t)
    \/ \E timezone \in ValidZones, t \in ProbeInstants : CallDayIndex(timezone, t)

SpecFn == Init /\ [][NextFn]_vars

\* The weekday's windows and the minute of the day of the probed call
ProbeWindows ==
    probe.schedule.windowsPerDay[Weekday(LocalSeconds(probe.at, probe.timezone)) % 7]

ProbeMinutes ==
    Hour(LocalSeconds(probe.at, probe.timezone)) * 60 + Minute(LocalSeconds(probe.at, probe.timezone))

\* C9: in a valid zone isVisibleNow is true exactly when some interval of the
\* local weekday has start <= minutes < end, minutes = localHour*60 +
\* localMinute; with the one interval {780,1020}, 13:00 and 16:59 are visible
\* and 12:59 and 17:00 are not.
C9_VisibleIffInSomeWindow ==
    (probe.fn = "isSecretVisibleNow" /\ probe.timezone \in ValidZones) =>
        /\ probe.out <=> \E k \in 1..Len(ProbeWindows) :
                            ProbeWindows[k].start <= ProbeMinutes /\ ProbeMinutes < ProbeWindows[k].end
        /\ ProbeWindows = <<[start |-> 780, end |-> 1020]>> =>
              /\ ProbeMinutes \in {780, 1019} => probe.out
              /\ ProbeMinutes \in {779, 1020} => ~probe.out

\* C9: the call at local 17:00 of a day whose one window is 13:00-17:00
C9_Witness ==
    /\ probe.fn = "isSecretVisibleNow" /\ probe.timezone \in ValidZones
    /\ ProbeWindows = <<[start |-> 780, end |-> 1020]>>
    /\ ProbeMinutes = 1020
    /\ ~probe.out

\* C10: with an invalid zone name isVisibleNow returns false.
C10_InvalidZoneNeverVisible ==
    (probe.fn = "isSecretVisibleNow" /\ ~validateTimezone(probe.timezone)) => probe.out = FALSE

\* C10: the call with an invalid zone and the schedule that is visible all week
C10_Witness ==
    /\ probe.fn = "isSecretVisibleNow" /\ probe.timezone = "Not/AZone"
    /\ AlwaysVisible(probe.schedule)
    /\ probe.out = FALSE

\* The weekday of a local wall clock counted from the calendar: 1970-01-01
\* was a Thursday, day 4 when Sunday is day 0
CalendarDay(local) == ((local \div 86400) + 4) % 7

\* C11: the index that selects a day's intervals is luxon's weekday
\* (Monday=1 .. Sunday=7) modulo 7, so Sunday=0, Monday=1, .., Saturday=6,
\* and the evaluator and the scanner compute the same index for the same
\* local instant.
C11_SundayZeroIndexInBoth ==
    probe.fn = "dayIndex" =>
        /\ probe.visibleIndex = CalendarDay(LocalSeconds(probe.at, probe.timezone))
        /\ probe.visibleIndex = probe.weekday % 7
        /\ probe.scanIndex = probe.visibleIndex
        /\ probe.weekday = 7 <=> probe.visibleIndex = 0

\* C11: the index of a Sunday in Tokyo that is still Saturday in UTC
C11_Witness ==
    /\ probe.fn = "dayIndex" /\ probe.timezone = "Asia/Tokyo"
    /\ probe.weekday = 7 /\ probe.visibleIndex = 0 /\ probe.scanIndex = 0
    /\ CalendarDay(probe.at) = 6

---------------------------------------------------------------------------
(* hasEverEnteredHiddenSinceCreation called on its own: the arguments are
   chosen first, then the function is applied to them *)

DayOfSeconds == 24 * 60 * 60

\* Every day all day but Monday, which has no window
FormMondayOff == [d \in 0..6 |-> IF d = 1 THEN DayOff ELSE DayAllDay]

ScanForms == {FormAlways, FormExample, FormThreeWindows, FormMondayOff}

\* Always visible but on Sunday from 02:00 to 03:00
ScheduleSundayGap ==
    [version |-> 1,
     windowsPerDay |-> [d \in 0..6 |->
        IF d = 0 THEN <<[start |-> 0, end |-> 120], [start |-> 180, end |-> 1440]>>
        ELSE <<[start |-> 0, end |-> 1440]>>]]

ScanSchedules ==
    {TheValue(parseScheduleFromBody([secretText |-> SecretKey, timezone |-> "UTC", days |-> f]).schedule) :
        f \in ScanForms}
    \cup {ScheduleSundayGap}

\* Saturday 14:59:45, Sunday 13:00:00, 14:59:30 and 23:59:30, Tuesday 00:00:20 (UTC)
\* of January 1970, and Sunday 1970-04-19 08:00:00 and 08:00:30 UTC (03:00 in
\* New York), a week before the clocks of New York go forward
ScanCreations ==
    {At(2, 14, 59, 45), At(3, 13, 0, 0), At(3, 14, 59, 30), At(3, 23, 59, 30), At(5, 0, 0, 20),
     At(108, 8, 0, 0), At(108, 8, 0, 30)}

\* now - createdAt in seconds: before the creation, within the first minutes,
\* hours and days later, and around and beyond the 14 days of the cap
ScanDistances ==
    {0 - 3600, 0, 10, 30, 40, 59, 60, 90, 3600, DayOfSeconds, 6 * DayOfSeconds, 7 * DayOfSeconds,
     14 * DayOfSeconds - 60, 14 * DayOfSeconds, 14 * DayOfSeconds + 60, 15 * DayOfSeconds,
     21 * DayOfSeconds}

ScanInputs ==
    {[fn |-> "scan:arguments", createdAt |-> c, schedule |-> sch, timezone |-> tz, at |-> c + d] :
        c \in ScanCreations, sch \in ScanSchedules, tz \in ProbeZones, d \in ScanDistances}

InitScan ==
    /\ now = StartInstant
    /\ secrets = <<>>
    /\ resp = NoResp
    /\ everHid = [id \in Ids |-> FALSE]
    /\ procs = [p \in Procs |-> Idle]
    /\ probe \in ScanInputs

\* hasEverEnteredHiddenSinceCreation(createdAt, schedule, timezone) is called
\* when the clock reads probe.at
CallHasEverEnteredHidden ==
    /\ probe.fn = "scan:arguments"
    /\ probe' = [fn |-> "hasEverEnteredHiddenSinceCreation",
                 createdAt |-> probe.createdAt, schedule |-> probe.schedule,
                 timezone |-> probe.timezone, at |-> probe.at,
                 out |-> hasEverEnteredHiddenSinceCreation(probe.createdAt, probe.schedule,
                                                           probe.timezone, probe.at),
                 tested |-> ScanTested(probe.createdAt, probe.schedule, probe.timezone, probe.at)]
    /\ UNCHANGED <<now, secrets, resp, everHid, procs>>

NextScan == CallHasEverEnteredHidden

SpecScan == InitScan /\ [][NextScan]_vars

Scanned == probe.fn = "hasEverEnteredHiddenSinceCreation"

\* The whole minutes from createdAt to the call, none when the call is earlier
WholeMinutesElapsed == Max(0, (probe.at - probe.createdAt) \div 60)

\* The secret of the probed call is shown at instant t, by section 4.3
ProbeShownAt(t) == ShownAt([timezone |-> probe.timezone, schedule |-> probe.schedule], t)

\* C12: the scan returns true exactly when one of the minutes createdAt + i
\* minutes, i from 0 to min(14*24*60, whole minutes elapsed), is not visible
\* under the schedule in the zone, and false when all of them are visible.
C12_TrueIffSomeSampleHidden ==
    Scanned =>
        (probe.out <=> \E i \in 0..Min(20160, WholeMinutesElapsed) :
                           ~ProbeShownAt(probe.createdAt + 60 * i))

\* C12: only the last minute sampled is hidden, and the scan returns true
C12_Witness ==
    /\ Scanned /\ probe.out
    /\ WholeMinutesElapsed = 1
    /\ ProbeShownAt(probe.createdAt)
    /\ ~ProbeShownAt(probe.createdAt + 60)

\* C13, as stated: for a schedule whose seven days are each the one
\* interval [0,1440) the scan returns false for every createdAt and every now.
C13_AllDayNeverHidden ==
    (Scanned /\ AlwaysVisible(probe.schedule)) => probe.out = FALSE

\* C13, amended: it does so in every valid zone.
C13_AllDayNeverHiddenInValidZone ==
    (Scanned /\ AlwaysVisible(probe.schedule) /\ validateTimezone(probe.timezone))
        => probe.out = FALSE

\* C13: the all-day schedule scanned over more than the 14 days of the cap
C13_Witness ==
    /\ Scanned /\ AlwaysVisible(probe.schedule) /\ probe.timezone = "Asia/Tokyo"
    /\ probe.at - probe.createdAt > 14 * DayOfSeconds
    /\ probe.tested = 20161
    /\ probe.out = FALSE

\* The instant at which the wall clock of the zone reads `local`
InstantOfLocal(local, tz) ==
    IF local - 60 * ZoneOffsetMinutes(tz) < NewYorkClocksForward
    THEN local - 60 * ZoneOffsetMinutes(tz)
    ELSE local - 60 * OffsetMinutesAt(tz, local - 60 * ZoneOffsetMinutes(tz))

\* A weekday of the probed schedule has no interval
HasEmptyDay == \E d \in 0..6 : probe.schedule.windowsPerDay[d] = <<>>

\* The local day, counted from 1970-01-01, in which the probed record was created
CreationLocalDay == LocalSeconds(probe.createdAt, probe.timezone) \div DayOfSeconds

\* The days from the creation's local day to the first later day without interval
DaysToEmptyDay ==
    CHOOSE j \in 1..7 :
        /\ probe.schedule.windowsPerDay[CalendarDay((CreationLocalDay + j) * DayOfSeconds)] = <<>>
        /\ \A k \in 1..(j - 1) :
              probe.schedule.windowsPerDay[CalendarDay((CreationLocalDay + k) * DayOfSeconds)] # <<>>

\* The instant at which that day begins in the zone
EmptyDayStart ==
    InstantOfLocal((CreationLocalDay + DaysToEmptyDay) * DayOfSeconds, probe.timezone)

\* The probed call is one of those the statement is about
CreatedVisibleBeforeEmptyDay ==
    /\ Scanned /\ validateTimezone(probe.timezone)
    /\ HasEmptyDay
    /\ ProbeShownAt(probe.createdAt)

\* C14, as stated: created at a visible instant under a schedule with a
\* weekday without intervals, the scan returns true for every now at or after
\* the first local minute of that empty day following createdAt.
C14_TrueFromEmptyDayOn ==
    (CreatedVisibleBeforeEmptyDay /\ probe.at >= EmptyDayStart) => probe.out = TRUE

\* C14, amended: it returns true for every now at or after the first minute
\* createdAt + i minutes that lies in that empty day, which is the day's
\* first minute at the second of the minute at which the record was created.
C14_TrueFromFirstSampleInEmptyDay ==
    (CreatedVisibleBeforeEmptyDay /\ probe.at >= EmptyDayStart + (probe.createdAt % 60))
        => probe.out = TRUE

\* C14: created on Sunday 23:59:30, every day but Monday all day, the call
\* comes with the sample of Monday 00:00:30, the first hidden one
C14_Witness ==
    /\ CreatedVisibleBeforeEmptyDay
    /\ probe.createdAt % 60 = 30
    /\ probe.at = EmptyDayStart + 30
    /\ probe.tested = 2
    /\ probe.out = TRUE

\* C15, as stated: the scan tests at most min(14*24*60, elapsed minutes to
\* now) minutes, starting at createdAt, whatever the schedule, the zone and
\* the distance from createdAt to now (now earlier than createdAt included).
C15_TestsAtMostElapsedMinutes ==
    Scanned => probe.tested <= Min(14 * 24 * 60, WholeMinutesElapsed)

\* C15, amended: it tests createdAt and then one minute for each step, at
\* most min(14*24*60, whole minutes elapsed) + 1 minutes in all.
C15_TestsAtMostOneMoreThanElapsed ==
    Scanned =>
        /\ probe.tested >= 1
        /\ probe.tested <= Min(14 * 24 * 60, WholeMinutesElapsed) + 1

\* C15: a call made an hour before createdAt, a visible instant, tests
\* createdAt and nothing else
C15_Witness ==
    /\ Scanned
    /\ probe.at < probe.createdAt
    /\ ProbeShownAt(probe.createdAt)
    /\ probe.tested = 1
    /\ probe.out = FALSE

\* The minute createdAt + i minutes is not visible under the schedule in the zone
SampleHidden(in, i) ==
    ~ShownAt([timezone |-> in.timezone, schedule |-> in.schedule], in.createdAt + 60 * i)

\* For the arguments `in` every minute createdAt + i of the first 14 days
\* is visible and a later one, not after now, is hidden
FirstHiddenBeyondWindow(in) ==
    /\ validateTimezone(in.timezone)
    /\ in.at - in.createdAt > 14 * DayOfSeconds
    /\ \A i \in 0..(14 * 24 * 60) : ~SampleHidden(in, i)
    /\ \E i \in (14 * 24 * 60 + 1)..((in.at - in.createdAt) \div 60) : SampleHidden(in, i)

AllDayEveryDay ==
    \A d \in 0..6 : probe.schedule.windowsPerDay[d] = <<[start |-> 0, end |-> 1440]>>

\* The probed call comes at least `days` days after createdAt
ElapsedDaysAtLeast(days) == probe.at - probe.createdAt >= days * DayOfSeconds

\* C29: in a zone with a fixed UTC offset, when at least 7 days (10080
\* minutes) have elapsed from createdAt to now, the scan returns true if and
\* only if the schedule is not all-day on every one of the seven days.
C29_AfterAWeekTrueIffNotAllDay ==
    (Scanned /\ probe.timezone \in FixedOffsetZones /\ ElapsedDaysAtLeast(7))
        => (probe.out <=> ~AllDayEveryDay)

\* C29: in UTC, with Sunday 02:00-03:00 the only hidden hour and the record
\* created on Sunday 08:00, the call made 7 days later finds the first hidden
\* minute after more than six days of minutes
C29_Witness ==
    /\ Scanned /\ probe.timezone = "UTC"
    /\ probe.schedule = ScheduleSundayGap
    /\ probe.at - probe.createdAt = 7 * DayOfSeconds
    /\ probe.tested > 6 * 24 * 60
    /\ probe.out = TRUE

---------------------------------------------------------------------------
(* normalizeIntervals called on its own, and on its own result *)

\* The most intervals in a sequence given to normalizeIntervals
MaxIntervals == 3

Iv(a, b) == [start |-> a, end |-> b]

\* Touching, overlapping and separate intervals, intervals reaching below 0
\* and beyond 1440, an empty one and reversed ones
NormIntervals ==
    {Iv(0, 60), Iv(60, 120), Iv(0, 30), Iv(40, 60), Iv(30, 40), Iv(40, 120), Iv(0, 1440),
     Iv(0 - 10, 30), Iv(0 - 20, 0 - 10), Iv(120, 1450), Iv(1440, 1450), Iv(60, 0), Iv(30, 30)}

RECURSIVE SeqsUpTo(_, _)
SeqsUpTo(S, n) ==
    IF n = 0 THEN {<<>>}
    ELSE SeqsUpTo(S, n - 1) \cup {Append(q, x) : q \in SeqsUpTo(S, n - 1), x \in S}

NormInputs == {[fn |-> "normalize:arguments", xs |-> xs] : xs \in SeqsUpTo(NormIntervals, MaxIntervals)}

InitNorm ==
    /\ now = StartInstant
    /\ secrets = <<>>
    /\ resp = NoResp
    /\ everHid = [id \in Ids |-> FALSE]
    /\ procs = [p \in Procs |-> Idle]
    /\ probe \in NormInputs

\* normalizeIntervals(xs)
CallNormalize ==
    /\ probe.fn = "normalize:arguments"
    /\ probe' = [fn |-> "normalizeIntervals", xs |-> probe.xs, out |-> normalizeIntervals(probe.xs)]
    /\ UNCHANGED <<now, secrets, resp, everHid, procs>>

\* normalizeIntervals(normalizeIntervals(xs))
CallNormalizeAgain ==
    /\ probe.fn = "normalizeIntervals"
    /\ probe' = [fn |-> "normalizeIntervals twice", xs |-> probe.xs, out |-> probe.out,
                 again |-> normalizeIntervals(probe.out)]
    /\ UNCHANGED <<now, secrets, resp, everHid, procs>>

NextNorm == CallNormalize \/ CallNormalizeAgain

SpecNorm == InitNorm /\ [][NextNorm]_vars

Normalized == probe.fn \in {"normalizeIntervals", "normalizeIntervals twice"}

\* C16: normalize(normalize(xs)) equals normalize(xs) for every sequence xs.
C16_NormalizeIdempotent ==
    probe.fn = "normalizeIntervals twice" => probe.again = probe.out

\* C16: three intervals that normalize to fewer, normalized a second time
C16_Witness ==
    /\ probe.fn = "normalizeIntervals twice"
    /\ Len(probe.xs) = 3 /\ Len(probe.out) = 2
    /\ probe.out # probe.xs
    /\ probe.again = probe.out

\* C17: for every input, reversed, empty, negative and beyond 1440 included,
\* the output is strictly increasing in start, end[i] < start[i+1] for
\* consecutive intervals, and 0 <= start < end <= 1440 for each interval.
C17_OutputSortedDisjointInRange ==
    Normalized =>
        /\ \A i \in 1..Len(probe.out) :
              /\ 0 <= probe.out[i].start
              /\ probe.out[i].start < probe.out[i].end
              /\ probe.out[i].end <= 1440
        /\ \A i \in 1..(Len(probe.out) - 1) :
              /\ probe.out[i].start < probe.out[i + 1].start
              /\ probe.out[i].end < probe.out[i + 1].start

\* C17: an input reaching below 0 and one beyond 1440, given in descending
\* order, come out clamped and in ascending order
C17_Witness ==
    /\ probe.fn = "normalizeIntervals"
    /\ probe.xs = <<Iv(120, 1450), Iv(0 - 10, 30)>>
    /\ probe.out = <<Iv(0, 30), Iv(120, 1440)>>

\* The minute m of the day lies in an interval of the sequence that has start < end
CoveredBy(seq, m) ==
    \E i \in 1..Len(seq) : seq[i].start < seq[i].end /\ seq[i].start <= m /\ m < seq[i].end

\* The minutes of [0,1440) at and next to an end of an interval of the inputs:
\* between two of them the cover of a sequence does not change
EdgeMinutes ==
    {m \in 0..1439 : \E iv \in NormIntervals : \E e \in {iv.start, iv.end} : m \in {e - 1, e, e + 1}}

\* C18: a minute of [0,1440) lies in an output interval exactly when it lies
\* in an input interval with start < end, and the output intervals are the
\* maximal runs of covered minutes: [0,60) and [60,120) become [0,120), and
\* [0,30) and [40,60) stay apart.
C18_OutputIsMaximalCover ==
    Normalized =>
        /\ \A m \in EdgeMinutes : CoveredBy(probe.out, m) <=> CoveredBy(probe.xs, m)
        /\ \A i \in 1..Len(probe.out) :
              /\ probe.out[i].start > 0 => ~CoveredBy(probe.xs, probe.out[i].start - 1)
              /\ probe.out[i].end < 1440 => ~CoveredBy(probe.xs, probe.out[i].end)
              /\ \A m \in EdgeMinutes :
                    (probe.out[i].start <= m /\ m < probe.out[i].end) => CoveredBy(probe.xs, m)
        /\ probe.xs = <<Iv(0, 60), Iv(60, 120)>> => probe.out = <<Iv(0, 120)>>
        /\ probe.xs = <<Iv(0, 30), Iv(40, 60)>> => probe.out = <<Iv(0, 30), Iv(40, 60)>>

\* C18: the touching pair given in descending order, with a separate interval
C18_Witness ==
    /\ probe.fn = "normalizeIntervals"
    /\ probe.xs = <<Iv(60, 120), Iv(0, 30), Iv(30, 40)>>
    /\ probe.out = <<Iv(0, 40), Iv(60, 120)>>

---------------------------------------------------------------------------
(* parseScheduleFromBody called on its own *)

T0900 == <<"0", "9", ":", "0", "0">>
T1000 == <<"1", "0", ":", "0", "0">>
T1400 == <<"1", "4", ":", "0", "0">>
T1260 == <<"1", "2", ":", "6", "0">>
TNoColon == <<"1", "3">>
TLetters == <<"a", "b", ":", "0", "0">>
TMinusOne == <<"-", "1", ":", "0", "0">>
TDigitThenLetter == <<"1", "a", ":", "0", "0">>
TMinuteThenLetter == <<"1", "7", ":", "0", "x">>
TNineUnpadded == <<"9", ":", "0", "0">>
T0905 == <<"0", "9", ":", "0", "5">>

Slot(s, e) == [s |-> s, e |-> e]

\* Slots whose two texts are times of the day with start before end
GoodSlots ==
    {NoSlot, Slot(T1300, T1700), Slot(T0900, T1300), Slot(T1000, T1400), Slot(T1700, T2359),
     Slot(T0000, T0900)}

\* Slots with a text that is no time of the day, and a slot given by half
OddSlots ==
    {Slot(T2500, T1700), Slot(T1300, T1260), Slot(TLetters, T1700), Slot(TNoColon, T1700),
     Slot(TMinusOne, T1700), Slot(TDigitThenLetter, T1700), Slot(T1300, TMinuteThenLetter),
     Slot(T2500, <<>>)}

\* The three slots of the weekday under test: any good ones, or one odd slot
\* at any place among good ones
ParseSlotRows ==
    {<<a, b, c>> : a \in GoodSlots, b \in GoodSlots, c \in GoodSlots}
    \cup {[r \in 1..3 |-> IF r = at THEN odd ELSE other] :
            at \in 1..3, odd \in OddSlots, other \in {NoSlot, Slot(T0900, T1300)}}

\* Slots whose two texts are times of the day with start not before end
ReversedSlots == {Slot(T1700, T1300), Slot(T1300, T1300), Slot(T1000, T0900)}

\* One reversed slot at any place among good ones
ReversedSlotRows ==
    {[r \in 1..3 |-> IF r = at THEN rev ELSE other] :
        at \in 1..3, rev \in ReversedSlots, other \in {NoSlot, Slot(T0900, T1300)}}

\* Two slots of one weekday that the parser refuses, and a free third one
TwoFaultRows ==
    {<<a, b, NoSlot>> : a \in ReversedSlots \cup {Slot(T2500, T1700)},
                        b \in ReversedSlots \cup {Slot(T1300, T1260)}}

\* Slots with a text that is accepted but is not written as zero-padded HH:MM
UnpaddedSlotRows ==
    {<<Slot(TNineUnpadded, T1300), NoSlot, Slot(T1700, T2359)>>,
     <<Slot(T0000, T0905), Slot(T1000, T1400), NoSlot>>,
     <<NoSlot, Slot(T0905, T1000), Slot(T1300, TMinuteThenLetter)>>}

\* The slots left in the form of a weekday whose all-day box is ticked
AllDaySlotRows ==
    {<<NoSlot, NoSlot, NoSlot>>, <<Slot(T2500, T1700), NoSlot, NoSlot>>,
     <<Slot(T0900, T1300), Slot(T1700, T1300), NoSlot>>,
     <<Slot(T1300, T1300), Slot(TLetters, T1700), Slot(T1000, T0900)>>,
     <<Slot(T0900, T1300), Slot(T1000, T1400), Slot(T1700, T2359)>>}

\* The form with the weekday d under test and every other day 13:00-17:00
ParseForm(d, allDay, row) ==
    [x \in 0..6 |-> IF x = d THEN [allDay |-> allDay, slots |-> row] ELSE DayAfternoon]

\* The form with two weekdays under test
ParseFormTwo(d, dayD, e, dayE) ==
    [x \in 0..6 |-> IF x = d THEN dayD ELSE IF x = e THEN dayE ELSE DayAfternoon]

ParseArguments(days) ==
    [fn |-> "parse:arguments",
     body |-> [secretText |-> SecretKey, timezone |-> "UTC", days |-> days]]

ParseInputs ==
    {ParseArguments(ParseForm(d, FALSE, row)) :
        d \in 0..6, row \in ParseSlotRows \cup ReversedSlotRows \cup TwoFaultRows \cup UnpaddedSlotRows}
    \cup {ParseArguments(ParseForm(d, TRUE, row)) : d \in 0..6, row \in AllDaySlotRows}
    \cup {ParseArguments(ParseFormTwo(d, [allDay |-> allDay, slots |-> <<NoSlot, rev, NoSlot>>],
                                      e, [allDay |-> FALSE, slots |-> <<other, NoSlot, NoSlot>>])) :
            d \in 0..6, e \in 0..6, allDay \in BOOLEAN, rev \in ReversedSlots,
            other \in {Slot(T2500, T1700), Slot(T1700, T1300), Slot(T0900, T1300)}}

InitParse ==
    /\ now = StartInstant
    /\ secrets = <<>>
    /\ resp = NoResp
    /\ everHid = [id \in Ids |-> FALSE]
    /\ procs = [p \in Procs |-> Idle]
    /\ probe \in ParseInputs

\* parseScheduleFromBody(body)
CallParseScheduleFromBody ==
    /\ probe.fn = "parse:arguments"
    /\ probe' = [fn |-> "parseScheduleFromBody", body |-> probe.body,
                 out |-> parseScheduleFromBody(probe.body)]
    /\ UNCHANGED <<now, secrets, resp, everHid, procs>>

\* scheduleToDisplayRows(schedule) of the schedule that parse returned
CallScheduleToDisplayRows ==
    /\ probe.fn = "parseScheduleFromBody"
    /\ probe.out.schedule # Absent
    /\ probe' = [fn |-> "scheduleToDisplayRows", body |-> probe.body, out |-> probe.out,
                 rows |-> scheduleToDisplayRows(TheValue(probe.out.schedule))]
    /\ UNCHANGED <<now, secrets, resp, everHid, procs>>

NextParse == CallParseScheduleFromBody \/ CallScheduleToDisplayRows

SpecParse == InitParse /\ [][NextParse]_vars

ParseReturned == probe.fn = "parseScheduleFromBody" /\ probe.out.schedule # Absent

AllDigits(text) == text # <<>> /\ \A i \in 1..Len(text) : text[i] \in {Digits[k] : k \in 1..10}

ColonPlaces(text) == {i \in 1..Len(text) : text[i] = ":"}

\* The text denotes an hour in [0,23] and a minute in [0,59]: two whole
\* numbers in these ranges with a colon between them
DenotesTimeOfDay(text) ==
    /\ Cardinality(ColonPlaces(text)) = 1
    /\ AllDigits(SubSeq(text, 1, TheValue(ColonPlaces(text)) - 1))
    /\ AllDigits(SubSeq(text, TheValue(ColonPlaces(text)) + 1, Len(text)))
    /\ DecimalValue(SubSeq(text, 1, TheValue(ColonPlaces(text)) - 1)) <= 23
    /\ DecimalValue(SubSeq(text, TheValue(ColonPlaces(text)) + 1, Len(text))) <= 59

\* Both texts of the slot r of weekday d are given and one of them denotes
\* no time of the day
SlotHasBadTime(d, r) ==
    /\ ~probe.body.days[d].allDay
    /\ probe.body.days[d].slots[r].s # <<>>
    /\ probe.body.days[d].slots[r].e # <<>>
    /\ \/ ~DenotesTimeOfDay(probe.body.days[d].slots[r].s)
       \/ ~DenotesTimeOfDay(probe.body.days[d].slots[r].e)

\* C20: for a weekday not flagged all-day and a slot 1..3, when a supplied
\* start or end text denotes no hour in [0,23] and minute in [0,59] ("25:00"),
\* parse fails with the invalid-time error naming that weekday and slot and
\* returns no schedule.
C20_BadTimeTextRejected ==
    probe.fn = "parseScheduleFromBody" =>
        \A d \in 0..6, r \in 1..3 :
            SlotHasBadTime(d, r) =>
                /\ probe.out.schedule = Absent
                /\ probe.out.threw = Some([text |-> "Invalid time for <day> interval <slot>.",
                                           day |-> DAY_NAMES[d + 1], slot |-> r])

\* The invalid-interval error for the slot r of weekday d, line 65
InvalidInterval(d, r) ==
    Some([text |-> "<day> interval <slot> start must be before end.",
          day |-> DAY_NAMES[d + 1], slot |-> r])

\* The slot r of weekday d, not flagged all-day, is supplied with two times
\* of the day, the start not before the end
SlotIsReversed(d, r) ==
    /\ ~probe.body.days[d].allDay
    /\ DenotesTimeOfDay(probe.body.days[d].slots[r].s)
    /\ DenotesTimeOfDay(probe.body.days[d].slots[r].e)
    /\ TheValue(hhmmToMinutes(probe.body.days[d].slots[r].s))
           >= TheValue(hhmmToMinutes(probe.body.days[d].slots[r].e))

\* A slot that the loops reach before (d, r) is refused
EarlierSlotRefused(d, r) ==
    \E dr \in FailingSlots(probe.body) : dr[1] < d \/ (dr[1] = d /\ dr[2] < r)

\* C21 as stated: for any weekday not flagged all-day and any supplied slot
\* whose start and end are valid times with start >= end (start = end
\* included), parse fails with the invalid-interval error naming that weekday
\* and slot and returns no schedule.
C21_ReversedSlotRejected ==
    probe.fn = "parseScheduleFromBody" =>
        \A d \in 0..6, r \in 1..3 :
            SlotIsReversed(d, r) =>
                probe.out.schedule = Absent /\ probe.out.threw = InvalidInterval(d, r)

\* C21 amended: with such a slot parse fails and returns no schedule, and
\* the error is the invalid-interval error naming that weekday and slot when
\* no slot earlier in the form (weekday ascending, then slot ascending) is
\* refused.
C21_FirstReversedSlotRejected ==
    probe.fn = "parseScheduleFromBody" =>
        \A d \in 0..6, r \in 1..3 :
            SlotIsReversed(d, r) =>
                /\ probe.out.schedule = Absent
                /\ probe.out.threw # Absent
                /\ ~EarlierSlotRefused(d, r) => probe.out.threw = InvalidInterval(d, r)

\* C21: Tuesday's third slot 13:00-13:00 after two good slots is refused
\* with the error naming Tuesday, interval 3
C21_Witness ==
    /\ probe.fn = "parseScheduleFromBody"
    /\ probe.body.days[2].slots = <<Slot(T0900, T1300), Slot(T0900, T1300), Slot(T1300, T1300)>>
    /\ SlotIsReversed(2, 3)
    /\ probe.out.schedule = Absent
    /\ probe.out.threw = InvalidInterval(2, 3)

\* Weekday e is flagged all-day, or each of its slots is skipped or accepted
DayIsAcceptable(e) ==
    \/ probe.body.days[e].allDay
    \/ \A r \in 1..3 : SlotOutcome(probe.body.days[e].slots[r]) \in {"skip", "ok"}

\* C22: when the all-day flag is set for a weekday, the schedule parse
\* returns has exactly the single interval [0,1440) for that day whatever
\* the slots of that day hold (malformed and reversed ones included); these
\* slots raise no error, so parse fails only for a slot of another weekday.
C22_AllDayIgnoresSlots ==
    probe.fn = "parseScheduleFromBody" =>
        \A d \in 0..6 :
            probe.body.days[d].allDay =>
                /\ probe.out.threw # Absent => TheValue(probe.out.threw).day # DAY_NAMES[d + 1]
                /\ probe.out.schedule # Absent =>
                       TheValue(probe.out.schedule).windowsPerDay[d] = <<Iv(0, 1440)>>
                /\ (\A e \in (0..6) \ {d} : DayIsAcceptable(e)) => probe.out.schedule # Absent

\* C22: Wednesday flagged all-day with the slots 13:00-13:00, ab:00-17:00
\* and 10:00-09:00 left in the form comes out as [0,1440)
C22_Witness ==
    /\ probe.fn = "parseScheduleFromBody"
    /\ probe.body.days[3].allDay
    /\ probe.body.days[3].slots = <<Slot(T1300, T1300), Slot(TLetters, T1700), Slot(T1000, T0900)>>
    /\ probe.out.threw = Absent
    /\ TheValue(probe.out.schedule).windowsPerDay[3] = <<Iv(0, 1440)>>

IsSupplied(slot) == slot.s # <<>> /\ slot.e # <<>>

\* The text is two digits, a colon and two digits, and a time of the day
IsPaddedTime(text) ==
    /\ Len(text) = 5
    /\ text[3] = ":"
    /\ DenotesTimeOfDay(text)

\* The minute of the day that a zero-padded HH:MM text denotes
PaddedMinutes(text) ==
    60 * DecimalValue(SubSeq(text, 1, 2)) + DecimalValue(SubSeq(text, 4, 5))

\* The supplied slots of weekday d, in the order of the form
SuppliedSlots(d) == SelectSeq(probe.body.days[d].slots, IsSupplied)

\* Weekday d is given by slots, each empty or made of two zero-padded HH:MM
\* texts with start before end, the supplied ones ascending with a gap
\* between one's end and the next one's start
DayIsRoundTripInput(d) ==
    /\ ~probe.body.days[d].allDay
    /\ \A r \in 1..3 :
          \/ probe.body.days[d].slots[r] = NoSlot
          \/ /\ IsPaddedTime(probe.body.days[d].slots[r].s)
             /\ IsPaddedTime(probe.body.days[d].slots[r].e)
             /\ PaddedMinutes(probe.body.days[d].slots[r].s)
                    < PaddedMinutes(probe.body.days[d].slots[r].e)
    /\ \A k \in 1..(Len(SuppliedSlots(d)) - 1) :
          PaddedMinutes(SuppliedSlots(d)[k].e) < PaddedMinutes(SuppliedSlots(d)[k + 1].s)

\* The submitted texts of weekday d as rows of the display
SubmittedTexts(d) ==
    [k \in 1..Len(SuppliedSlots(d)) |->
        [start |-> SuppliedSlots(d)[k].s, end |-> SuppliedSlots(d)[k].e]]

\* C23: toDisplayRows(parse(inputs)) has seven rows in weekday order 0..6,
\* and for each weekday given by zero-padded HH:MM slots in ascending order
\* that neither overlap nor touch, the row's start and end strings equal the
\* submitted texts slot for slot.
C23_DisplayRoundTrip ==
    probe.fn = "scheduleToDisplayRows" =>
        /\ Len(probe.rows) = 7
        /\ \A d \in 0..6 :
              /\ probe.rows[d + 1].dayIndex = d
              /\ probe.rows[d + 1].dayName = DAY_NAMES[d + 1]
              /\ DayIsRoundTripInput(d) => probe.rows[d + 1].intervals = SubmittedTexts(d)

\* C23: Thursday submitted as 00:00-09:00, an empty slot and 17:00-23:59
\* is displayed with the same two pairs of texts
C23_Witness ==
    /\ probe.fn = "scheduleToDisplayRows"
    /\ probe.body.days[4].slots = <<Slot(T0000, T0900), NoSlot, Slot(T1700, T2359)>>
    /\ DayIsRoundTripInput(4)
    /\ probe.rows[5].intervals = <<[start |-> T0000, end |-> T0900], [start |-> T1700, end |-> T2359]>>

---------------------------------------------------------------------------
(* Requests in flight together: a handler runs up to each await, and the
   other handlers and the clock move between its reads and its writes *)

ConcHorizon == 5

\* The instants of Sunday 1970-01-04 the clock reads while requests overlap
ConcItinerary ==
    <<At(3, 12, 59, 30), At(3, 13, 0, 0), At(3, 16, 59, 40), At(3, 17, 0, 0),
      At(3, 17, 0, 30), At(3, 18, 0, 0)>>

ConcInstants == {ConcItinerary[k] : k \in 1..Min(ConcHorizon, Len(ConcItinerary))}

\* The request bodies sent while requests overlap
ConcBodies ==
    {[secretText |-> SecretKey, timezone |-> "UTC", days |-> FormExample],
     [secretText |-> SecretKey, timezone |-> "Asia/Tokyo", days |-> FormAlways],
     [secretText |-> SecretKey, timezone |-> "UTC", days |-> FormBadTime]}

SetProc(p, pc, id, snap, lockedAt, update) ==
    procs' = [procs EXCEPT ![p] =
                 [pc |-> pc, id |-> id, snap |-> snap, lockedAt |-> lockedAt, update |-> update]]

\* GET /s/:id, line 165: the read of the record is answered
ViewRead(p, id) ==
    /\ procs[p].pc = "idle"
    /\ SetProc(p, "view:read", id, getSecret(secrets, id), Absent, Absent)
    /\ UNCHANGED <<now, secrets, resp, everHid, probe>>

\* lines 166-177, with the record the read returned
ViewChecked(p, id, secret, isVisible) ==
    IF ViewLocks(secret, isVisible, now)
    THEN /\ SetProc(p, "view:lock", id, Some(secret), Some(now), Absent)
         /\ UNCHANGED resp
    ELSE /\ procs' = [procs EXCEPT ![p] = Idle]
         /\ resp' = ViewResponse(id, isVisible, secret.lockedAt)

ViewCheck(p) ==
    /\ procs[p].pc = "view:read"
    /\ IF procs[p].snap = Absent
       THEN /\ procs' = [procs EXCEPT ![p] = Idle]
            /\ resp' = Respond("view", procs[p].id, 404)
       ELSE ViewChecked(p, procs[p].id, TheValue(procs[p].snap),
                        isSecretVisibleNow(TheValue(procs[p].snap).schedule,
                                           TheValue(procs[p].snap).timezone, now))
    /\ UNCHANGED <<now, secrets, everHid, probe>>

\* line 177: the write of lockSecret lands; lines 178-190 answer. isVisible
\* is false or the scan was true, and the page shows what the handler holds
ViewLock(p) ==
    /\ procs[p].pc = "view:lock"
    /\ secrets' = lockSecret(secrets, procs[p].id, TheValue(procs[p].lockedAt))
    /\ resp' = [Respond("view", procs[p].id, 200) EXCEPT !.lockedAt = procs[p].lockedAt]
    /\ procs' = [procs EXCEPT ![p] = Idle]
    /\ UNCHANGED <<now, everHid, probe>>

\* POST /s/:id/update-schedule, line 195: the read of the record is answered
UpdateRead(p, id) ==
    /\ procs[p].pc = "idle"
    /\ SetProc(p, "update:read", id, getSecret(secrets, id), Absent, Absent)
    /\ UNCHANGED <<now, secrets, resp, everHid, probe>>

\* lines 206-231, with the body of the request
UpdateChecked(p, id, body) ==
    IF ScheduleErrors(body) # <<>>
    THEN /\ procs' = [procs EXCEPT ![p] = Idle]
         /\ resp' = [Respond("update", id, 400) EXCEPT
                       !.isVisible = TRUE, !.canModifySchedule = TRUE,
                       !.errors = ScheduleErrors(body)]
    ELSE /\ SetProc(p, "update:write", id, procs[p].snap, Absent,
                    Some([timezone |-> body.timezone,
                          schedule |-> TheValue(Parsed[body].schedule)]))
         /\ UNCHANGED resp

\* lines 196-231
UpdateCheck(p) ==
    /\ procs[p].pc = "update:read"
    /\ IF procs[p].snap = Absent
       THEN /\ procs' = [procs EXCEPT ![p] = Idle]
            /\ resp' = Respond("update", procs[p].id, 404)
       ELSE IF UpdateRefused(TheValue(procs[p].snap), now)
       THEN /\ procs' = [procs EXCEPT ![p] = Idle]
            /\ resp' = Respond("update", procs[p].id, 403)
       ELSE \E body \in ConcBodies : UpdateChecked(p, procs[p].id, body)
    /\ UNCHANGED <<now, secrets, everHid, probe>>

\* line 231: the write of updateSecretSchedule lands; line 237 redirects
UpdateWrite(p) ==
    /\ procs[p].pc = "update:write"
    /\ secrets' = updateSecretSchedule(secrets, procs[p].id,
                                       TheValue(procs[p].update).timezone,
                                       TheValue(procs[p].update).schedule)
    /\ resp' = Respond("update", procs[p].id, 302)
    /\ everHid' = [everHid EXCEPT ![procs[p].id] = @ \/ ~ShownAt(secrets'[procs[p].id], now)]
    /\ procs' = [procs EXCEPT ![p] = Idle]
    /\ UNCHANGED <<now, probe>>

NextConc ==
    \/ \E t \in ConcInstants : Tick(t)
    \/ \E id \in Ids, body \in ConcBodies : PostSecret(id, body)
    \/ \E p \in Procs, id \in Ids : ViewRead(p, id)
    \/ \E p \in Procs : ViewCheck(p)
    \/ \E p \in Procs : ViewLock(p)
    \/ \E p \in Procs, id \in Ids : UpdateRead(p, id)
    \/ \E p \in Procs : UpdateCheck(p)
    \/ \E p \in Procs : UpdateWrite(p)

SpecConc == Init /\ [][NextConc]_vars

\* C3: when the views of one secret are in flight together, the write of a
\* view never replaces a stored lockedAt by another value.
C3_ConcurrentViewsKeepLockedAt ==
    [][\A p \in Procs :
          (ViewLock(p) /\ secrets[procs[p].id].lockedAt # Absent) =>
              secrets'[procs[p].id].lockedAt = secrets[procs[p].id].lockedAt]_vars

\* C5: the write of an update never lands on a record whose stored lockedAt
\* is set, whatever view ran between the update's read and its write.
C5_NoUpdateWriteOnLockedRecord ==
    [][\A p \in Procs :
          UpdateWrite(p) =>
              /\ secrets[procs[p].id].lockedAt = Absent
              /\ secrets'[procs[p].id].lockedAt = Absent]_vars

====
